---- MODULE Spec2Model ----
(***************************************************************************)
(* A model of the recursive extraction pipeline of unblob:                 *)
(*   - the chunk model (models.py: Chunk, ValidChunk, UnknownChunk),       *)
(*   - the chunk reconciler (processing.py: remove_inner_chunks,           *)
(*     calculate_unknown_chunks),                                          *)
(*   - the task orchestrator (processing.py: Processor, _FileTask) and     *)
(*     the run of process_file over the worker pool.                       *)
(***************************************************************************)
EXTENDS Integers, Sequences, FiniteSets, Bags, TLC

(***************************************************************************)
(* Bounds of the model.                                                    *)
(***************************************************************************)
\* largest file size of the reconciler specification
MaxFileSize == 3
\* longest list of chunks handed to the reconciler
MaxChunks == 3
\* largest max_depth of a run
MaxDepth == 2
\* largest entropy_depth of a run
MaxEntropyDepth == 1
\* deepest nesting of directories below an input path or an output directory
MaxHeight == 1
\* most entries of a directory
MaxEntries == 1
\* largest size lstat reports for a file of a run
MaxStatSize == 2
\* most chunks the search finds in a file of a run
MaxFound == 2
\* most tasks alive (submitted, or listed in a result not yet called back)
\* besides the one a worker is starting on
MaxLive == 2
\* most failures the collaborators (file system, extractors) produce in a run
MaxFaults == 1
\* most failures the collaborators produce in a run of the report
\* specification
MaxReportFaults == 3
\* most input paths of an invocation of the command line
MaxFiles == 2

(***************************************************************************)
(* Program constants.                                                      *)
(***************************************************************************)
\* ExtractionConfig.process_num: the number of workers of the pool
process_num == 2

VARIABLES
    \* ---- reconciler specification (SpecChunks) ----
    file_size,       \* size of the file the chunks were found in
    all_chunks,      \* the list of valid chunks found so far (search result)
    new_args,        \* arguments of the last chunk construction
    new_chunk,       \* outcome of the last chunk construction
    outer_chunks,    \* result of remove_inner_chunks(all_chunks)
    unknown_chunks,  \* outcome of calculate_unknown_chunks(outer_chunks, file_size)
    rpc,             \* position: "search", "reconciled", "done"
    \* ---- run of process_file (Spec) ----
    config,          \* the ExtractionConfig of the run
    main_pc,         \* position of process_file: "submit", "process_until_done", "done"
    queue,           \* pool: the tasks submitted and not yet taken by a worker
    outstanding,     \* pool: the count of tasks submitted and not completed
    results,         \* pool: the results returned and not yet called back
    workers,         \* pool: per worker, its position in process_task
    all_reports,     \* process_file: the Reports collected by the callback
    exit_code,       \* main: the exit code derived from the Reports, -1 before
    fault_budget,    \* the failures the collaborators produce at most in the run
    max_entries,     \* the entries a directory of the run has at most
    faults,          \* the failures the collaborators have produced so far
    expected,        \* history: the tasks submitted and not yet handed to process_task
    returned,        \* history: the results process_task returned, not yet called back
    mishandled,      \* history: a task or result was handled it should not have been
    deepest,         \* history: the largest depth of a task handed to process_task
    \* ---- the invocation of the command line (SpecFiles) ----
    files,           \* cli: the input paths of the invocation
    next_file,       \* cli: the index of the path the loop over files is at
    file_tasks,      \* process_file: the tasks of the call not yet processed
    extract_dirs     \* history: per file task that made one, its extract directory

chunk_vars == <<file_size, all_chunks, new_args, new_chunk, outer_chunks,
                unknown_chunks, rpc>>

run_vars == <<config, main_pc, queue, outstanding, results, workers,
              all_reports, exit_code, fault_budget, max_entries, faults,
              expected, returned, mishandled, deepest>>

cli_vars == <<files, next_file, file_tasks, extract_dirs>>

vars == <<chunk_vars, run_vars, cli_vars>>

(***************************************************************************)
(* Helpers on sequences.                                                   *)
(***************************************************************************)
Range(s) == {s[i] : i \in 1..Len(s)}

Front(s) == SubSeq(s, 1, Len(s) - 1)

Last(s) == s[Len(s)]

\* x put into the key-sorted sequence s behind every element whose key is
\* not larger than the key of x
RECURSIVE Insert(_, _, _)
Insert(s, x, key) ==
    IF s = <<>> THEN <<x>>
    ELSE IF key[Last(s)] <= key[x] THEN Append(s, x)
    ELSE Append(Insert(Front(s), x, key), Last(s))

\* Python's sorted(): a stable sort by ascending key
RECURSIVE sorted(_, _)
sorted(s, key) ==
    IF s = <<>> THEN <<>>
    ELSE Insert(sorted(Front(s), key), Last(s), key)

(***************************************************************************)
(* models.py: Chunk                                                        *)
(***************************************************************************)
\* an exception raised by a call, by the name of its class
Raised(class) == [exception |-> class]

\* the value a call returned
Returned(value) == [value |-> value]

InvalidInputFormat == Raised("InvalidInputFormat")

\* Chunk.__attrs_post_init__ with the second test weakened to '>'
Chunk_AllowEmpty(start_offset, end_offset) ==
    IF start_offset < 0 \/ end_offset < 0 THEN InvalidInputFormat
    ELSE IF start_offset > end_offset THEN InvalidInputFormat
    ELSE [start_offset |-> start_offset, end_offset |-> end_offset]

\* construction of a Chunk, ValidChunk or UnknownChunk: the chunk, or the
\* exception raised by __attrs_post_init__
Chunk(start_offset, end_offset) ==
    IF start_offset < 0 \/ end_offset < 0 THEN InvalidInputFormat
    ELSE IF start_offset >= end_offset THEN InvalidInputFormat
    ELSE [start_offset |-> start_offset, end_offset |-> end_offset]

size(chunk) == chunk.end_offset - chunk.start_offset

\* the test on the start offsets with '<=' for '<'
contains_NonStrict(self, other) ==
    /\ self.start_offset <= other.start_offset
    /\ self.end_offset >= other.end_offset

contains(self, other) ==
    /\ self.start_offset < other.start_offset
    /\ self.end_offset >= other.end_offset

contains_offset(self, offset) ==
    /\ self.start_offset <= offset
    /\ offset < self.end_offset

(***************************************************************************)
(* processing.py: remove_inner_chunks                                      *)
(***************************************************************************)
\* the list left in the order it was given
chunks_by_size_Unsorted(chunks) == chunks

\* the list sorted by size ascending (reverse=True forgotten)
chunks_by_size_Ascending(chunks) ==
    sorted(chunks, [c \in Range(chunks) |-> size(c)])

\* sorted(chunks, key=attrgetter("size"), reverse=True)
chunks_by_size(chunks) ==
    sorted(chunks, [c \in Range(chunks) |-> 0 - size(c)])

\* the loop of remove_inner_chunks over chunks_by_size[1:], outer_chunks
\* being the list accumulated so far
RECURSIVE append_outer(_, _)
append_outer(outer, rest) ==
    IF rest = <<>> THEN outer
    ELSE IF ~ \E i \in 1..Len(outer) : contains(outer[i], Head(rest))
         THEN append_outer(Append(outer, Head(rest)), Tail(rest))
         ELSE append_outer(outer, Tail(rest))

remove_inner_chunks(chunks) ==
    IF chunks = <<>> THEN <<>>
    ELSE append_outer(<<Head(chunks_by_size(chunks))>>,
                      Tail(chunks_by_size(chunks)))

(***************************************************************************)
(* processing.py: calculate_unknown_chunks                                 *)
(***************************************************************************)
sorted_by_offset(chunks) ==
    sorted(chunks, [c \in Range(chunks) |-> c.start_offset])

\* the gap in front of the first chunk
first_unknown(first) ==
    IF first.start_offset # 0
    THEN <<Chunk(0, first.start_offset)>>
    ELSE <<>>

\* the gaps between the adjacent pairs of the offset-sorted list
pairwise_unknown(s) ==
    LET gap(i) == Chunk(s[i].end_offset, s[i + 1].start_offset)
        idx == {i \in 1..(Len(s) - 1) :
                    s[i + 1].start_offset - s[i].end_offset # 0}
        RECURSIVE from(_)
        from(i) == IF i >= Len(s) THEN <<>>
                   ELSE IF i \in idx THEN <<gap(i)>> \o from(i + 1)
                   ELSE from(i + 1)
    IN from(1)

\* the trailing gap test dropped
last_unknown_Dropped(last, size_of_file) == <<>>

\* the gap behind the last chunk
last_unknown(last, size_of_file) ==
    IF last.end_offset < size_of_file
    THEN <<Chunk(last.end_offset, size_of_file)>>
    ELSE <<>>

\* Returned(the list of unknown chunks), or InvalidInputFormat when the
\* construction of one of them raises
calculate_unknown_chunks(chunks, size_of_file) ==
    IF chunks = <<>> \/ size_of_file = 0 THEN Returned(<<>>)
    ELSE LET s == sorted_by_offset(chunks)
             unknown == first_unknown(s[1])
                        \o pairwise_unknown(s)
                        \o last_unknown(Last(s), size_of_file)
         IN IF \E i \in 1..Len(unknown) : unknown[i] = InvalidInputFormat
            THEN InvalidInputFormat
            ELSE Returned(unknown)

(***************************************************************************)
(* Specification of the reconciler: chunks are constructed by the          *)
(* handlers during the search of a file, then reconciled.                  *)
(***************************************************************************)
NoArgs == <<>>

\* the variables of the invocation, while none is modelled
CliIdle ==
    /\ files = <<>>
    /\ next_file = 1
    /\ file_tasks = {}
    /\ extract_dirs = <<>>

\* the variables of a run, while no run is going on
RunIdle ==
    /\ config = [max_depth |-> 1, entropy_depth |-> 0,
                 keep_extracted_chunks |-> FALSE]
    /\ main_pc = "done"
    /\ queue = <<>>
    /\ outstanding = 0
    /\ results = <<>>
    /\ workers = [w \in 1..process_num |-> [pc |-> "idle"]]
    /\ all_reports = <<>>
    /\ exit_code = -1
    /\ fault_budget = 0
    /\ max_entries = 0
    /\ faults = 0
    /\ expected = EmptyBag
    /\ returned = EmptyBag
    /\ mishandled = FALSE
    /\ deepest = 0

InitChunks ==
    /\ file_size \in 1..MaxFileSize
    /\ all_chunks = <<>>
    /\ new_args = NoArgs
    /\ new_chunk = InvalidInputFormat
    /\ outer_chunks = <<>>
    /\ unknown_chunks = Returned(<<>>)
    /\ rpc = "search"
    /\ RunIdle
    /\ CliIdle

\* a handler computes the offsets of a candidate and constructs the chunk;
\* a chunk reaching beyond the end of the file is discarded by the search
NewChunk(start_offset, end_offset) ==
    /\ rpc = "search"
    /\ Len(all_chunks) < MaxChunks
    /\ new_args' = <<start_offset, end_offset>>
    /\ new_chunk' = Chunk(start_offset, end_offset)
    /\ all_chunks' = IF /\ new_chunk' # InvalidInputFormat
                        /\ end_offset <= file_size
                     THEN Append(all_chunks, new_chunk')
                     ELSE all_chunks
    /\ UNCHANGED <<file_size, outer_chunks, unknown_chunks, rpc, run_vars,
                   cli_vars>>

RemoveInnerChunks ==
    /\ rpc = "search"
    /\ outer_chunks' = remove_inner_chunks(all_chunks)
    /\ rpc' = "reconciled"
    /\ UNCHANGED <<file_size, all_chunks, new_args, new_chunk, unknown_chunks,
                   run_vars, cli_vars>>

CalculateUnknownChunks ==
    /\ rpc = "reconciled"
    /\ unknown_chunks' = calculate_unknown_chunks(outer_chunks, file_size)
    /\ rpc' = "done"
    /\ UNCHANGED <<file_size, all_chunks, new_args, new_chunk, outer_chunks,
                   run_vars, cli_vars>>

NextChunks ==
    \/ \E s \in -1..MaxFileSize, e \in -1..(MaxFileSize + 1) : NewChunk(s, e)
    \/ RemoveInnerChunks
    \/ CalculateUnknownChunks

SpecChunks == InitChunks /\ [][NextChunks]_vars

(***************************************************************************)
(* Properties of the reconciler.                                           *)
(***************************************************************************)
\* the chunks of a list that contain the offset, counted with multiplicity
covering(chunks, offset) ==
    Cardinality({i \in 1..Len(chunks) : contains_offset(chunks[i], offset)})

\* gap computation completed and every offset of the file lies in exactly
\* one outer or unknown chunk
TilesExactly ==
    /\ unknown_chunks # InvalidInputFormat
    /\ \A offset \in 0..(file_size - 1) :
          covering(outer_chunks, offset)
          + covering(unknown_chunks.value, offset) = 1

disjoint(a, b) ==
    \/ a.end_offset <= b.start_offset
    \/ b.end_offset <= a.start_offset

\* any two chunks of the list are disjoint, or one contains the other
NestedOrDisjoint(chunks) ==
    \A i, j \in 1..Len(chunks) :
        i # j => \/ disjoint(chunks[i], chunks[j])
                 \/ contains(chunks[i], chunks[j])
                 \/ contains(chunks[j], chunks[i])

\* C1 as stated: for every file size S > 0 and every list of valid chunks
\* inside [0, S], the outer chunks and the unknown chunks tile [0, S)
\* exactly.
C1_TilingOfEveryList == rpc = "done" => TilesExactly

\* C1, amended: for every file size S > 0 and every non-empty list of valid
\* chunks inside [0, S] in which any two chunks are disjoint or nested (one
\* contains the other), gap computation completes and the outer chunks and
\* the unknown chunks tile [0, S) exactly.
C1_Tiling ==
    (rpc = "done" /\ all_chunks # <<>> /\ NestedOrDisjoint(all_chunks))
        => TilesExactly

C1_Witness ==
    /\ rpc = "done"
    /\ Len(all_chunks) >= 2
    /\ NestedOrDisjoint(all_chunks)
    /\ Len(outer_chunks) < Len(all_chunks)
    /\ unknown_chunks # InvalidInputFormat
    /\ Len(unknown_chunks.value) >= 1

\* C2: no chunk of the result of remove_inner_chunks contains another chunk
\* of the result.
C2_NoOuterContainsOuter ==
    rpc \in {"reconciled", "done"} =>
        \A i, j \in 1..Len(outer_chunks) :
            ~ contains(outer_chunks[i], outer_chunks[j])

C2_Witness ==
    /\ rpc = "reconciled"
    /\ Len(all_chunks) = 3
    /\ Len(outer_chunks) = 2
    /\ \E i \in 1..3 : contains(all_chunks[3], all_chunks[i])

\* the reorderings of a list
Permutations_of(s) ==
    {[i \in 1..Len(s) |-> s[f[i]]] :
        f \in {g \in [1..Len(s) -> 1..Len(s)] :
                  \A i, j \in 1..Len(s) : i # j => g[i] # g[j]}}

\* what a caller observes of gap computation: the set of unknown chunks, or
\* the failure
Outcome(result) ==
    IF result = InvalidInputFormat THEN result
    ELSE Returned(Range(result.value))

\* C3: calculate_unknown_chunks(remove_inner_chunks(C), S) has the same
\* outcome (set of unknown chunks, or failure) for every permutation of C.
C3_OrderIndependent ==
    rpc = "done" =>
        \A p \in Permutations_of(all_chunks) :
            Outcome(calculate_unknown_chunks(remove_inner_chunks(p), file_size))
                = Outcome(unknown_chunks)

C3_Witness ==
    /\ rpc = "done"
    /\ Len(all_chunks) = 3
    /\ Cardinality(Range(all_chunks)) = 3
    /\ \E i, j \in 1..3 : i # j /\ size(all_chunks[i]) = size(all_chunks[j])
    /\ \E i, j \in 1..3 :
          i # j /\ all_chunks[i].start_offset = all_chunks[j].start_offset

\* every chunk of the lists of the reconciler
ExistingChunks ==
    Range(all_chunks) \cup Range(outer_chunks)
    \cup (IF unknown_chunks = InvalidInputFormat THEN {}
          ELSE Range(unknown_chunks.value))

\* C4: constructing a chunk succeeds exactly when 0 <= start < end and
\* fails with InvalidInputFormat otherwise, so every chunk that exists,
\* the unknown chunks included, has start >= 0 and start < end.
C4_ChunkBounds ==
    /\ new_args # NoArgs =>
          IF 0 <= new_args[1] /\ new_args[1] < new_args[2]
          THEN new_chunk = [start_offset |-> new_args[1],
                            end_offset |-> new_args[2]]
          ELSE new_chunk = InvalidInputFormat
    /\ \A c \in ExistingChunks :
          c.start_offset >= 0 /\ c.start_offset < c.end_offset

C4_Witness ==
    /\ rpc = "done"
    /\ new_args # NoArgs
    /\ new_args[1] = new_args[2]
    /\ new_chunk = InvalidInputFormat
    /\ unknown_chunks # InvalidInputFormat
    /\ Len(unknown_chunks.value) >= 2


(***************************************************************************)
(* models.py: ValidChunk, Task, TaskResult, ExtractError, Handler          *)
(***************************************************************************)
\* the handlers of the model: "chk" has no extractor (netgear.py), the
\* handler "archive" has one
HandlerNames == {"chk", "archive"}

EXTRACTOR(handler) == IF handler = "chk" THEN "None" ELSE "Extractor"

\* the valid chunks the handlers can calculate in a file of the given size;
\* the handler "chk" leaves is_encrypted at its default (netgear.py)
ValidChunks(size_of_file) ==
    {v \in {[start_offset |-> c.start_offset, end_offset |-> c.end_offset,
             handler |-> h, is_encrypted |-> enc] :
                c \in {Chunk(s, e) : s \in 0..size_of_file,
                                     e \in 0..size_of_file}
                        \ {InvalidInputFormat},
                h \in HandlerNames, enc \in BOOLEAN} :
        v.handler = "chk" => ~ v.is_encrypted}

Task(root, path, depth) == [root |-> root, path |-> path, depth |-> depth]

\* TaskResult.__init__; effects and chunk_log are the history of what the
\* task did to the file system, listing that of the entries iterdir
\* yielded, escaped that of the exception that reached process_task and
\* on_disk that of what lstat found at the path, kept with the result
TaskResult(task) ==
    [task |-> task, reports |-> <<>>, new_tasks |-> <<>>,
     effects |-> {}, listing |-> <<>>, chunk_log |-> <<>>,
     escaped |-> "None", on_disk |-> "None"]

add_report(result, report) ==
    [result EXCEPT !.reports = Append(@, report)]

add_new_task(result, task) ==
    [result EXCEPT !.new_tasks = Append(@, task)]

\* the history of a task extended by the sub-steps it ran
did(result, steps) == [result EXCEPT !.effects = @ \cup steps]

(***************************************************************************)
(* report.py (as used by processing.py)                                    *)
(***************************************************************************)
UnknownError(exception) ==
    [kind |-> "UnknownError", severity |-> "ERROR", exception |-> exception]

\* a report an extractor attaches to its ExtractError
ExtractCommandFailed ==
    [kind |-> "ExtractCommandFailed", severity |-> "ERROR",
     exception |-> "None"]

\* a report of fix_extracted_directory about an unsafe entry it removed
UnsafeSymlink ==
    [kind |-> "UnsafeSymlink", severity |-> "WARNING", exception |-> "None"]

(***************************************************************************)
(* The files of a run.  A path is a node of a finite tree: its name and    *)
(* the depth of directory nesting that can follow below it.                *)
(***************************************************************************)
InputPath == [node |-> "input", name |-> <<>>, height |-> MaxHeight]

EntryPath(directory, i) ==
    [node |-> "entry", name |-> <<i>>, height |-> directory.height - 1]

\* get_extract_paths: the output directory of a carved chunk
OutdirPath(chunk) ==
    [node |-> "outdir", name |-> <<chunk.start_offset, chunk.end_offset>>,
     height |-> MaxHeight]

\* the tasks alive: submitted and not completed, or listed in a result that
\* was not yet called back
Live ==
    LET listed(w) == IF workers[w].pc = "idle" THEN 0
                     ELSE Len(workers[w].result.new_tasks)
        RECURSIVE sum_workers(_)
        sum_workers(w) == IF w = 0 THEN 0 ELSE listed(w) + sum_workers(w - 1)
        RECURSIVE sum_results(_)
        sum_results(i) == IF i = 0 THEN 0
                          ELSE Len(results[i].new_tasks) + sum_results(i - 1)
    IN outstanding + sum_workers(process_num) + sum_results(Len(results))

\* the children the task a worker is starting on can have
Room == IF Live - 1 >= MaxLive THEN 0 ELSE MaxLive - (Live - 1)

CanFail == faults < fault_budget

Min(a, b) == IF a <= b THEN a ELSE b

(***************************************************************************)
(* processing.py: Processor.process_task, _process_task, _FileTask.process *)
(* up to the first valid chunk                                             *)
(***************************************************************************)
\* Processor._process_error
_process_error(result, exception) ==
    add_report(result, UnknownError(exception))

\* process_task returns the result: the worker hands it to the result
\* channel of the pool and is idle again
Finish(w, result) ==
    /\ workers' = [workers EXCEPT ![w] = [pc |-> "idle"]]
    /\ results' = Append(results, result)
    /\ returned' = returned (+) SetToBag({result})

\* the loop over the outer chunks left as soon as an extraction has failed
Continue_StopOnFailure(w, result, chunks) ==
    IF \/ chunks = <<>>
       \/ /\ result.chunk_log # <<>>
          /\ Last(result.chunk_log).raised # "None"
    THEN Finish(w, result)
    ELSE /\ workers' = [workers EXCEPT ![w] =
                [pc |-> "extract", result |-> result, chunks |-> chunks]]
         /\ UNCHANGED <<results, returned>>

\* the worker goes on with the outer chunks left
Continue(w, result, chunks) ==
    IF chunks = <<>> THEN Finish(w, result)
    ELSE /\ workers' = [workers EXCEPT ![w] =
                [pc |-> "extract", result |-> result, chunks |-> chunks]]
         /\ UNCHANGED <<results, returned>>

\* only OSError is caught
caught_OnlyOSError(exception) == exception = "OSError"

\* the except clause of process_task: "except Exception"; the exceptions of
\* the model are all subclasses of Exception
caught(exception) == exception \in {"OSError", "InvalidInputFormat", "Exception"}

\* an exception leaves _process_task: process_task reports it and returns
\* the result, or the exception leaves process_task as well
process_task_except(w, result, exception) ==
    IF caught(exception)
    THEN Finish(w, _process_error([result EXCEPT !.escaped = exception],
                                  exception))
    ELSE /\ workers' = [workers EXCEPT ![w] =
                [pc |-> "crashed",
                 result |-> [result EXCEPT !.escaped = exception],
                 chunks |-> <<>>]]
         /\ UNCHANGED <<results, returned>>

\* a collaborator fails in a sub-step of the task
RaiseInTask(w, result, exception) ==
    /\ CanFail
    /\ faults' = faults + 1
    /\ process_task_except(w, result, exception)

\* task.path.iterdir() for a directory of n entries
iterdir(directory, n) == [i \in 1..n |-> EntryPath(directory, i)]

\* the history of a task extended by the entries iterdir yielded
listed(result, entries) == [result EXCEPT !.listing = entries]

\* the for loop with the last entry left out
RECURSIVE add_entries_SkipLast(_, _, _)
add_entries_SkipLast(result, task, n) ==
    IF n <= 1 THEN result
    ELSE add_new_task(add_entries_SkipLast(result, task, n - 1),
                      Task(task.root, EntryPath(task.path, n - 1), task.depth))

\* the for loop over task.path.iterdir()
RECURSIVE add_entries(_, _, _)
add_entries(result, task, n) ==
    IF n = 0 THEN result
    ELSE add_new_task(add_entries(result, task, n - 1),
                      Task(task.root, EntryPath(task.path, n), task.depth))

\* carve_unknown_chunks: the paths of the carved unknown chunks
UnknownPath(chunk) ==
    [node |-> "unknown", name |-> <<chunk.start_offset, chunk.end_offset>>,
     height |-> 0]

carve_unknown_chunks(chunks) ==
    [i \in 1..Len(chunks) |-> UnknownPath(chunks[i])]

\* calculate_entropy(path), in the history of the task by the kind of path
calculate_entropy(path) ==
    IF path.node = "unknown" THEN "calculate_entropy(unknown chunk)"
    ELSE "calculate_entropy(task path)"

\* the depth test with '<=' for '<'
_calculate_entropies_Inclusive(result, task, paths) ==
    IF task.depth <= config.entropy_depth
    THEN did(result, {calculate_entropy(paths[i]) : i \in 1..Len(paths)})
    ELSE result

\* _FileTask._calculate_entropies
_calculate_entropies(result, task, paths) ==
    IF task.depth < config.entropy_depth
    THEN did(result, {calculate_entropy(paths[i]) : i \in 1..Len(paths)})
    ELSE result

\* _FileTask.process and _FileTask._process_chunks up to the loop over the
\* outer chunks
FileTask_process(w, task, size_of_file, result) ==
    \/ \* task.path.open or search_chunks_by_priority raises
       RaiseInTask(w, did(result, {"lstat"}), "OSError")
    \/ \E n \in 0..Min(MaxFound, Room) :
       \E all \in [1..n -> ValidChunks(size_of_file)] :
         LET searched == did(result, {"lstat", "search"})
             outer == remove_inner_chunks(all)
             unknown == calculate_unknown_chunks(outer, size_of_file)
         IN IF unknown = InvalidInputFormat
            THEN \* calculate_unknown_chunks raises
                 RaiseInTask(w, searched, "InvalidInputFormat")
            ELSE IF outer = <<>> /\ unknown.value = <<>>
            THEN \* no chunks: the entropy of the whole file
                 /\ Finish(w, _calculate_entropies(searched, task, <<task.path>>))
                 /\ UNCHANGED faults
            ELSE \/ \* make_extract_dir raises
                    RaiseInTask(w, searched, "OSError")
                 \/ \* carve_unknown_chunks or calculate_entropy raises
                    RaiseInTask(w, did(searched, {"make_extract_dir"}), "OSError")
                 \/ /\ Continue(w, _calculate_entropies(
                                        did(searched, {"make_extract_dir",
                                                       "carve_unknown_chunks"}),
                                        task,
                                        carve_unknown_chunks(unknown.value)),
                                 outer)
                    /\ UNCHANGED faults

\* the depth test with '>' for '>='
depth_reached_Strict(task) == task.depth > config.max_depth

\* the test of line 99
depth_reached(task) == task.depth >= config.max_depth

\* what the path of a task can be on disk
FileKinds ==
    {"directory", "symlink to directory", "symlink to file", "empty file",
     "file"}

\* the history of a task extended by what its path was on disk
found_on_disk(result, kind) == [result EXCEPT !.on_disk = kind]

\* the mode of what the path leads to, symbolic links followed
lstat_Following(kind) ==
    IF kind \in {"directory", "symlink to directory"} THEN "S_IFDIR"
    ELSE "S_IFREG"

\* task.path.lstat().st_mode: the mode of the path itself
lstat(kind) ==
    IF kind = "directory" THEN "S_IFDIR"
    ELSE IF kind \in {"symlink to directory", "symlink to file"} THEN "S_IFLNK"
    ELSE "S_IFREG"

\* statres.st_size of a regular file
st_size(kind) == IF kind = "empty file" THEN {0} ELSE 1..MaxStatSize

\* Processor._process_task
_process_task(w, task, result) ==
    IF depth_reached(task)
    THEN Finish(w, result) /\ UNCHANGED faults
    ELSE \/ \* not valid_path(task.path)
            Finish(w, did(result, {"valid_path"})) /\ UNCHANGED faults
         \/ \* task.path.lstat() raises
            RaiseInTask(w, did(result, {"valid_path"}), "OSError")
         \/ \E kind \in FileKinds :
              LET mode == lstat(kind)
                  statres == found_on_disk(result, kind)
              IN /\ kind = "directory" => task.path.height > 0
                 /\ IF mode = "S_IFDIR"
                    THEN \* stat.S_ISDIR(mode)
                         /\ \E n \in 0..Min(max_entries, Room) :
                              Finish(w, add_entries(
                                  listed(did(statres, {"valid_path", "lstat",
                                                       "iterdir"}),
                                         iterdir(task.path, n)),
                                  task, n))
                         /\ UNCHANGED faults
                    ELSE IF mode = "S_IFLNK"
                    THEN \* stat.S_ISLNK(mode)
                         /\ Finish(w, did(statres, {"valid_path", "lstat"}))
                         /\ UNCHANGED faults
                    ELSE \E size_of_file \in st_size(kind) :
                           IF size_of_file = 0
                           THEN \* size == 0
                                /\ Finish(w, did(statres,
                                                 {"valid_path", "lstat"}))
                                /\ UNCHANGED faults
                           ELSE FileTask_process(w, task, size_of_file,
                                                 did(statres, {"valid_path"}))

\* a worker takes a task from the pool and calls Processor.process_task
ProcessTask(w) ==
    /\ workers[w].pc = "idle"
    /\ queue # <<>>
    /\ queue' = Tail(queue)
    /\ _process_task(w, Head(queue), TaskResult(Head(queue)))
    /\ IF BagIn(Head(queue), expected)
       THEN /\ expected' = expected (-) SetToBag({Head(queue)})
            /\ UNCHANGED mishandled
       ELSE /\ mishandled' = TRUE
            /\ UNCHANGED expected
    /\ deepest' = IF Head(queue).depth > deepest THEN Head(queue).depth
                  ELSE deepest
    /\ UNCHANGED <<config, exit_code, fault_budget, max_entries, main_pc, outstanding, all_reports, chunk_vars,
                   cli_vars>>

(***************************************************************************)
(* models.py: ValidChunk.extract, Handler.extract.  An outcome tells what  *)
(* the call raised, the reports attached to an ExtractError, whether the   *)
(* output directory was made, whether the extractor was invoked, and       *)
(* whether a collaborator failed.                                          *)
(***************************************************************************)
Outcome_of_extract(raised, reports, mkdir, invoked, fault) ==
    [raised |-> raised, reports |-> reports, mkdir |-> mkdir,
     invoked |-> invoked, fault |-> fault]

Handler_extract(handler) ==
    IF EXTRACTOR(handler) = "None"
    THEN {Outcome_of_extract("ExtractError", <<>>, FALSE, FALSE, FALSE)}
    ELSE {\* outdir.mkdir raises
          Outcome_of_extract("OSError", <<>>, FALSE, FALSE, TRUE),
          \* the extractor succeeds
          Outcome_of_extract("None", <<>>, TRUE, TRUE, FALSE),
          \* the extractor raises ExtractError with its reports
          Outcome_of_extract("ExtractError", <<ExtractCommandFailed>>,
                             TRUE, TRUE, TRUE),
          \* the extractor raises something else
          Outcome_of_extract("Exception", <<>>, TRUE, TRUE, TRUE)}

\* the is_encrypted test left out
ValidChunk_extract_Unchecked(chunk) == Handler_extract(chunk.handler)

ValidChunk_extract(chunk) ==
    IF chunk.is_encrypted
    THEN {Outcome_of_extract("ExtractError", <<>>, FALSE, FALSE, FALSE)}
    ELSE Handler_extract(chunk.handler)

(***************************************************************************)
(* processing.py: _FileTask._extract_chunk                                 *)
(***************************************************************************)
extract_root == "extract_root"

\* the child task of a chunk, two levels below the parent
child_task_TwoDeeper(task, chunk) ==
    Task(extract_root, OutdirPath(chunk), task.depth + 2)

\* the child task of a chunk, with the depth of the parent kept
child_task_SameDepth(task, chunk) ==
    Task(extract_root, OutdirPath(chunk), task.depth)

\* the Task of lines 215-219
child_task(task, chunk) ==
    Task(extract_root, OutdirPath(chunk), task.depth + 1)

\* a child only for a chunk whose extraction raised nothing
has_child_OnSuccessOnly(outdir_exists, raised) ==
    outdir_exists /\ raised = "None"

\* the test of line 213: outdir.exists()
has_child(outdir_exists, raised) == outdir_exists

\* the for loop of lines 203-204
RECURSIVE add_reports(_, _)
add_reports(result, reports) ==
    IF reports = <<>> THEN result
    ELSE add_reports(add_report(result, Head(reports)), Tail(reports))

\* lines 196-208: the result after chunk.extract had outcome x
after_extract(result, x, unlink_fails) ==
    IF x.raised = "None"
    THEN IF ~ config.keep_extracted_chunks /\ unlink_fails
         THEN add_report(result, UnknownError("OSError"))
         ELSE result
    ELSE IF x.raised = "ExtractError"
    THEN add_reports(result, x.reports)
    ELSE add_report(result, UnknownError(x.raised))

logged(result, entry) == [result EXCEPT !.chunk_log = Append(@, entry)]

_extract_chunk(w) ==
    LET self == workers[w]
        task == self.result.task
        chunk == Head(self.chunks)
        rest == Tail(self.chunks)
    IN \/ \* carve_valid_chunk raises
          RaiseInTask(w, self.result, "OSError")
       \/ \E x \in ValidChunk_extract(chunk), unlink_fails \in BOOLEAN,
             fix \in {"returns", "reports", "raises"} :
            LET unlinked == /\ x.raised = "None"
                            /\ ~ config.keep_extracted_chunks
                            /\ ~ unlink_fails
                extracted == after_extract(self.result, x, unlink_fails)
                outdir_exists == x.mkdir
                n_faults == (IF x.fault THEN 1 ELSE 0)
                            + (IF unlink_fails THEN 1 ELSE 0)
                            + (IF fix # "returns" THEN 1 ELSE 0)
                \* the history of the chunk; after is the result once the
                \* fix-up has run
                entry(after, fixed, child) ==
                    [chunk |-> chunk, raised |-> x.raised,
                     attached |-> x.reports,
                     extractor_invoked |-> x.invoked,
                     outdir_exists |-> outdir_exists,
                     unlinked |-> unlinked, fixed |-> fixed,
                     reports |-> SubSeq(after.reports,
                                        Len(self.result.reports) + 1,
                                        Len(after.reports)),
                     child |-> IF child THEN <<child_task(task, chunk)>>
                               ELSE <<>>]
            IN /\ unlink_fails =>
                    (x.raised = "None" /\ ~ config.keep_extracted_chunks)
               /\ fix = "reports" => outdir_exists
               /\ faults + n_faults <= fault_budget
               /\ faults' = faults + n_faults
               /\ IF fix = "raises"
                  THEN \* fix_extracted_directory raises
                       process_task_except(
                           w, logged(extracted,
                                     entry(extracted, FALSE, FALSE)),
                           "OSError")
                  ELSE LET fixed == IF fix = "reports"
                                    THEN add_report(extracted, UnsafeSymlink)
                                    ELSE extracted
                       IN IF has_child(outdir_exists, x.raised)
                          THEN Continue(w, logged(
                                   add_new_task(fixed, child_task(task, chunk)),
                                   entry(fixed, TRUE, TRUE)), rest)
                          ELSE Continue(w, logged(fixed,
                                                  entry(fixed, TRUE, FALSE)),
                                        rest)

\* a worker in the loop of _process_chunks over the outer chunks
ExtractChunk(w) ==
    /\ workers[w].pc = "extract"
    /\ _extract_chunk(w)
    /\ UNCHANGED <<config, exit_code, fault_budget, max_entries, main_pc, queue, outstanding, all_reports,
                   expected, mishandled, deepest, chunk_vars,
                   cli_vars>>

(***************************************************************************)
(* cli.py: get_exit_code_from_reports                                      *)
(***************************************************************************)
\* Reports.errors: the reports that carry a severity of the table below
errors(reports) ==
    SelectSeq(reports, LAMBDA report : report.severity \in {"ERROR", "WARNING"})

severity_to_exit_code == <<<<"ERROR", 1>>, <<"WARNING", 0>>>>

\* the for loop of lines 203-207 over the table
RECURSIVE exit_code_by(_, _)
exit_code_by(table, severities) ==
    IF table = <<>> THEN 0
    ELSE IF Head(table)[1] \in severities THEN Head(table)[2]
    ELSE exit_code_by(Tail(table), severities)

\* the table read with WARNING in front of ERROR
get_exit_code_from_reports_WarningFirst(reports) ==
    exit_code_by(<<severity_to_exit_code[2], severity_to_exit_code[1]>>,
                 {errors(reports)[i].severity : i \in 1..Len(errors(reports))})

get_exit_code_from_reports(reports) ==
    exit_code_by(severity_to_exit_code,
                 {errors(reports)[i].severity : i \in 1..Len(errors(reports))})

(***************************************************************************)
(* The pool (make_pool): submit, the workers, process_until_done.          *)
(***************************************************************************)
\* only the first new task of a result is submitted
tasks_to_submit_FirstOnly(result) ==
    IF result.new_tasks = <<>> THEN <<>> ELSE <<Head(result.new_tasks)>>

\* the task of a result that holds an UnknownError is submitted once more
tasks_to_submit_WithRetry(result) ==
    IF result.escaped # "None"
    THEN Append(result.new_tasks, result.task)
    ELSE result.new_tasks

\* the tasks process_result submits for a result (lines 62-63)
tasks_to_submit(result) == result.new_tasks

RECURSIVE BagOfSeq(_)
BagOfSeq(s) ==
    IF s = <<>> THEN EmptyBag ELSE SetToBag({Head(s)}) (+) BagOfSeq(Tail(s))

\* process_file, lines 52-56 and 73: the root task is submitted
SubmitRoot ==
    /\ main_pc = "submit"
    /\ queue' = Append(queue, Task("input_root", InputPath, 0))
    /\ outstanding' = outstanding + 1
    /\ expected' = expected (+) SetToBag({Task("input_root", InputPath, 0)})
    /\ main_pc' = "process_until_done"
    /\ UNCHANGED <<config, exit_code, fault_budget, max_entries, results, workers, all_reports, faults, returned,
                   mishandled, deepest, chunk_vars,
                   cli_vars>>

\* only the error-severity reports of a result are collected
reports_to_extend_ErrorsOnly(result) ==
    SelectSeq(result.reports, LAMBDA report : report.severity = "ERROR")

\* the reports process_result collects for a result (line 64)
reports_to_extend(result) == result.reports

\* process_until_done takes a result from the result channel and calls
\* process_result(pool, result)
ProcessResult ==
    /\ main_pc = "process_until_done"
    /\ results # <<>>
    /\ results' = Tail(results)
    /\ queue' = queue \o tasks_to_submit(Head(results))
    /\ outstanding' = outstanding + Len(tasks_to_submit(Head(results))) - 1
    /\ all_reports' = all_reports \o reports_to_extend(Head(results))
    /\ expected' = expected (+) BagOfSeq(Head(results).new_tasks)
    /\ IF BagIn(Head(results), returned)
       THEN /\ returned' = returned (-) SetToBag({Head(results)})
            /\ UNCHANGED mishandled
       ELSE /\ mishandled' = TRUE
            /\ UNCHANGED returned
    /\ UNCHANGED <<config, exit_code, fault_budget, max_entries, main_pc, workers, faults, deepest, chunk_vars,
                   cli_vars>>

\* process_until_done returns, and process_file with it
Done ==
    /\ main_pc = "process_until_done"
    /\ outstanding = 0
    /\ main_pc' = "done"
    /\ UNCHANGED <<config, exit_code, fault_budget, max_entries, queue, outstanding, results, workers, all_reports,
                   faults, expected, returned, mishandled, deepest,
                   chunk_vars,
                   cli_vars>>

\* main: process_file has returned the Reports (one input file) and the
\* exit code of the process is derived from them
Exit ==
    /\ main_pc = "done"
    /\ exit_code = -1
    /\ exit_code' = get_exit_code_from_reports(all_reports)
    /\ UNCHANGED <<config, main_pc, queue, outstanding, results, workers,
                   all_reports, fault_budget, max_entries, faults, expected,
                   returned, mishandled, deepest, chunk_vars, cli_vars>>

ChunksIdle ==
    /\ file_size = 1
    /\ all_chunks = <<>>
    /\ new_args = NoArgs
    /\ new_chunk = InvalidInputFormat
    /\ outer_chunks = <<>>
    /\ unknown_chunks = Returned(<<>>)
    /\ rpc = "done"

Init ==
    /\ config \in [max_depth : 1..MaxDepth,
                   entropy_depth : 0..MaxEntropyDepth,
                   keep_extracted_chunks : BOOLEAN]
    /\ main_pc = "submit"
    /\ queue = <<>>
    /\ outstanding = 0
    /\ results = <<>>
    /\ workers = [w \in 1..process_num |-> [pc |-> "idle"]]
    /\ all_reports = <<>>
    /\ exit_code = -1
    /\ fault_budget = MaxFaults
    /\ max_entries = MaxEntries
    /\ faults = 0
    /\ expected = EmptyBag
    /\ returned = EmptyBag
    /\ mishandled = FALSE
    /\ deepest = 0
    /\ ChunksIdle
    /\ CliIdle

Next ==
    \/ SubmitRoot
    \/ \E w \in 1..process_num : ProcessTask(w)
    \/ \E w \in 1..process_num : ExtractChunk(w)
    \/ ProcessResult
    \/ Done
    \/ Exit

Spec == Init /\ [][Next]_vars

\* a run whose collaborators fail more often: extraction is two levels deep,
\* no entropy is calculated and the carved chunks are kept
InitReports ==
    /\ config = [max_depth |-> 2, entropy_depth |-> 0,
                 keep_extracted_chunks |-> TRUE]
    /\ main_pc = "submit"
    /\ queue = <<>>
    /\ outstanding = 0
    /\ results = <<>>
    /\ workers = [w \in 1..process_num |-> [pc |-> "idle"]]
    /\ all_reports = <<>>
    /\ exit_code = -1
    /\ fault_budget = MaxReportFaults
    /\ max_entries = MaxEntries
    /\ faults = 0
    /\ expected = EmptyBag
    /\ returned = EmptyBag
    /\ mishandled = FALSE
    /\ deepest = 0
    /\ ChunksIdle
    /\ CliIdle

SpecReports == InitReports /\ [][Next]_vars

\* a run over larger directories whose collaborators do not fail
InitDirs ==
    /\ config = [max_depth |-> 2, entropy_depth |-> 0,
                 keep_extracted_chunks |-> FALSE]
    /\ main_pc = "submit"
    /\ queue = <<>>
    /\ outstanding = 0
    /\ results = <<>>
    /\ workers = [w \in 1..process_num |-> [pc |-> "idle"]]
    /\ all_reports = <<>>
    /\ exit_code = -1
    /\ fault_budget = 0
    /\ max_entries = MaxEntries + 1
    /\ faults = 0
    /\ expected = EmptyBag
    /\ returned = EmptyBag
    /\ mishandled = FALSE
    /\ deepest = 0
    /\ ChunksIdle
    /\ CliIdle

SpecDirs == InitDirs /\ [][Next]_vars

\* the workers are scheduled fairly, and so is the owner of the pool
FairSpec ==
    /\ Spec
    /\ \A w \in 1..process_num : WF_vars(ProcessTask(w) \/ ExtractChunk(w))
    /\ WF_vars(SubmitRoot \/ ProcessResult \/ Done)

(***************************************************************************)
(* cli.py: the loop of cli over the input files, the root process_file     *)
(* gives a path, and the extract directory of a file task.  A path is the  *)
(* sequence of its names.                                                  *)
(***************************************************************************)
\* the directories and the files the invocation can name
InputDirs == {<<"a">>, <<"b">>}

FileNames == {"x", "y"}

InputFiles == {directory \o <<n>> : directory \in InputDirs, n \in FileNames}

\* config.extract_root as a path
ExtractRootDir == <<extract_root>>

\* the name carve_valid_chunk gives the carved file of a chunk
CarvedName == "0x0-0x1.archive"

\* os.path.relpath(path, start) for a path below start
relpath(path, start) == SubSeq(path, Len(start) + 1, Len(path))

\* extract_root / relpath(path, root) + "_extract"
make_extract_dir(root, path, extract_root_dir) ==
    LET rel == relpath(path, root)
    IN extract_root_dir \o Front(rel) \o <<Last(rel) \o "_extract">>

\* (carved_path, extract_dir / carved_path.name + "_extract")
get_extract_paths(extract_dir, carved_name) ==
    [inpath |-> extract_dir \o <<carved_name>>,
     outdir |-> extract_dir \o <<carved_name \o "_extract">>]

\* path.is_dir(): the input directories and the output directories of the
\* extractors
is_dir(path) ==
    \/ path \in InputDirs
    \/ path # <<>> /\ Last(path) = CarvedName \o "_extract"

\* line 51
root_of(path) == IF is_dir(path) THEN path ELSE Front(path)

\* cli, lines 182-183, and process_file, lines 51-56 and 73: the next input
\* path gets its root task
CliProcessFile ==
    /\ next_file <= Len(files)
    /\ file_tasks = {}
    /\ file_tasks' = {Task(root_of(files[next_file]), files[next_file], 0)}
    /\ next_file' = next_file + 1
    /\ UNCHANGED <<files, extract_dirs, chunk_vars, run_vars>>

\* a task of the call is processed (_process_task, _FileTask.process) as
\* far as the paths go: a directory lists its entries, a file in which
\* chunks are found gets an extract directory, and an output directory a
\* child task
CliProcessTask ==
    \E task \in file_tasks :
      LET rest == file_tasks \ {task}
          extract_dir == make_extract_dir(task.root, task.path, ExtractRootDir)
          populated == \E i \in 1..Len(extract_dirs) :
                          extract_dirs[i].extract_dir = extract_dir
          made == Append(extract_dirs,
                         [task |-> task, extract_dir |-> extract_dir,
                          populated |-> populated])
          child == Task(ExtractRootDir,
                        get_extract_paths(extract_dir, CarvedName).outdir,
                        task.depth + 1)
      IN /\ UNCHANGED <<files, next_file, chunk_vars, run_vars>>
         /\ IF depth_reached(task)
            THEN file_tasks' = rest /\ UNCHANGED extract_dirs
            ELSE IF is_dir(task.path)
            THEN /\ \E names \in SUBSET FileNames :
                      /\ task.path \in InputDirs => names = FileNames
                      /\ file_tasks' = rest \cup
                            {Task(task.root, task.path \o <<n>>, task.depth) :
                                n \in names}
                 /\ UNCHANGED extract_dirs
            ELSE \/ \* no chunk is found in the file
                    file_tasks' = rest /\ UNCHANGED extract_dirs
                 \/ \* make_extract_dir fails: the target is populated
                    /\ populated
                    /\ extract_dirs' = made
                    /\ file_tasks' = rest
                 \/ \* the chunk is carved, and extracted or not
                    /\ ~ populated
                    /\ extract_dirs' = made
                    /\ file_tasks' \in {rest, rest \cup {child}}

\* an invocation of one to MaxFiles input paths; no run is modelled, its
\* configuration aside
InitFiles ==
    /\ files \in UNION {[1..n -> InputDirs \cup InputFiles] : n \in 1..MaxFiles}
    /\ next_file = 1
    /\ file_tasks = {}
    /\ extract_dirs = <<>>
    /\ config = [max_depth |-> MaxDepth, entropy_depth |-> 0,
                 keep_extracted_chunks |-> FALSE]
    /\ main_pc = "done"
    /\ queue = <<>>
    /\ outstanding = 0
    /\ results = <<>>
    /\ workers = [w \in 1..process_num |-> [pc |-> "idle"]]
    /\ all_reports = <<>>
    /\ exit_code = 0
    /\ fault_budget = 0
    /\ max_entries = 0
    /\ faults = 0
    /\ expected = EmptyBag
    /\ returned = EmptyBag
    /\ mishandled = FALSE
    /\ deepest = 0
    /\ ChunksIdle

NextFiles == CliProcessFile \/ CliProcessTask

SpecFiles == InitFiles /\ [][NextFiles]_vars

(***************************************************************************)
(* Properties of a run.                                                    *)
(***************************************************************************)
\* the results process_task has returned and that wait for the callback
ReturnedResults == Range(results)

\* the results of the run, those still being filled by a worker included
AllResults ==
    ReturnedResults
    \cup {workers[w].result : w \in {v \in 1..process_num :
                                         workers[v].pc # "idle"}}

\* C5: process_task never lets an exception escape: whatever exception a
\* sub-step raises, process_task returns the result of the task, and the
\* result holds an UnknownError report for the exception.
C5_NoExceptionEscapes ==
    /\ \A w \in 1..process_num : workers[w].pc # "crashed"
    /\ \A r \in ReturnedResults :
          r.escaped # "None" =>
              \E i \in 1..Len(r.reports) :
                  r.reports[i] = UnknownError(r.escaped)

C5_Witness ==
    \E r \in ReturnedResults :
        /\ r.escaped = "OSError"
        /\ Len(r.chunk_log) = 2
        /\ r.new_tasks # <<>>
        /\ UnknownError("OSError") \in Range(r.reports)

\* C6: when process_file returns, every task submitted to the pool (the
\* root task and the new tasks of every result) was handed to process_task
\* exactly once, and its result to the result callback exactly once.
C6_EveryTaskOnce ==
    main_pc = "done" =>
        /\ expected = EmptyBag
        /\ returned = EmptyBag
        /\ ~ mishandled
        /\ queue = <<>> /\ results = <<>>
        /\ \A w \in 1..process_num : workers[w].pc = "idle"

C6_Witness ==
    /\ main_pc = "done"
    /\ deepest = 2
    /\ all_reports # <<>>

\* C7: under fair scheduling a run terminates: the count of outstanding
\* tasks reaches zero and process_until_done returns.
C7_Terminates == <>(main_pc = "done" /\ outstanding = 0)

C7_Witness ==
    /\ main_pc = "done"
    /\ outstanding = 0
    /\ deepest = config.max_depth
    /\ config.max_depth = MaxDepth

\* C8: a task whose depth is >= max_depth stops at the depth check: its
\* path is not stat-ed, searched, carved or extracted, and its result has
\* no new tasks.
C8_DepthCutoff ==
    \A r \in AllResults :
        r.task.depth >= config.max_depth =>
            /\ r.effects = {}
            /\ r.chunk_log = <<>>
            /\ r.new_tasks = <<>>

C8_Witness ==
    \E r \in ReturnedResults :
        /\ r.task.depth = config.max_depth
        /\ r.task.path.node = "outdir"

\* C9: for every outer chunk _extract_chunk handled and whose fix-up has
\* run, a child task was added if and only if the output directory exists,
\* whether the extraction succeeded or failed; the child has path = outdir,
\* depth = parent depth + 1 and root = extract_root.
C9_ChildIffOutdir ==
    \A r \in AllResults :
        \A i \in 1..Len(r.chunk_log) :
            LET e == r.chunk_log[i]
            IN e.fixed =>
                 /\ e.outdir_exists <=> e.child # <<>>
                 /\ e.child # <<>> =>
                      /\ e.child[1] \in Range(r.new_tasks)
                      /\ e.child[1].path = OutdirPath(e.chunk)
                      /\ e.child[1].depth = r.task.depth + 1
                      /\ e.child[1].root = extract_root

C9_Witness ==
    \E r \in AllResults :
        /\ Len(r.chunk_log) = 2
        /\ r.chunk_log[1].fixed /\ r.chunk_log[1].raised = "ExtractError"
        /\ r.chunk_log[1].outdir_exists /\ r.chunk_log[1].child # <<>>
        /\ r.chunk_log[2].fixed /\ ~ r.chunk_log[2].outdir_exists
        /\ r.chunk_log[2].child = <<>>

\* C10: for a valid chunk with is_encrypted = true the extractor is never
\* invoked, no output directory is created and no child task is added.
C10_EncryptedNotExtracted ==
    \A r \in AllResults :
        \A i \in 1..Len(r.chunk_log) :
            r.chunk_log[i].chunk.is_encrypted =>
                /\ ~ r.chunk_log[i].extractor_invoked
                /\ ~ r.chunk_log[i].outdir_exists
                /\ r.chunk_log[i].child = <<>>
                /\ \A t \in Range(r.new_tasks) :
                      t.path # OutdirPath(r.chunk_log[i].chunk)

C10_Witness ==
    \E r \in ReturnedResults :
        /\ Len(r.chunk_log) = 2
        /\ r.chunk_log[1].chunk.is_encrypted
        /\ r.chunk_log[2].child # <<>>

\* C11: for a valid chunk with is_encrypted = true, a warning report for
\* that chunk is added to the reports of the task's TaskResult.
C11_EncryptedWarningReport ==
    \A r \in AllResults :
        \A i \in 1..Len(r.chunk_log) :
            (r.chunk_log[i].chunk.is_encrypted /\ r.chunk_log[i].fixed) =>
                \E j \in 1..Len(r.chunk_log[i].reports) :
                    /\ r.chunk_log[i].reports[j].severity = "WARNING"
                    /\ r.chunk_log[i].reports[j] \in Range(r.reports)

\* C12: when keep_extracted_chunks is false, the carved file of every valid
\* chunk has been deleted once _extract_chunk finishes for the chunk,
\* whatever the outcome of the extraction (a deletion that itself raised
\* aside); when keep_extracted_chunks is true it is never deleted.
C12_CarvedFileDeleted ==
    \A r \in AllResults :
        \A i \in 1..Len(r.chunk_log) :
            r.chunk_log[i].fixed =>
                IF config.keep_extracted_chunks
                THEN ~ r.chunk_log[i].unlinked
                ELSE \/ r.chunk_log[i].unlinked
                     \/ r.chunk_log[i].raised = "None"

\* a is the beginning of b
IsPrefix(a, b) == Len(a) <= Len(b) /\ SubSeq(b, 1, Len(a)) = a

\* C13: a failure of one chunk's extraction (ExtractError or any other
\* exception raised by chunk.extract) does not stop the file task: the
\* reports attached to the ExtractError are added to the TaskResult, the
\* task goes on with every outer chunk left (and returns normally when none
\* is left), and the child tasks already added stay in the result.
C13_FailureDoesNotStopTask ==
    [][\A w \in 1..process_num :
         (workers[w].pc = "extract" /\ workers'[w] # workers[w]) =>
            LET before == workers[w].result
                after == IF workers'[w].pc = "idle" THEN Last(results')
                         ELSE workers'[w].result
                e == Last(after.chunk_log)
            IN (/\ Len(after.chunk_log) = Len(before.chunk_log) + 1
                /\ e.fixed
                /\ e.raised # "None") =>
                   /\ e.raised = "ExtractError" =>
                         SubSeq(after.reports, Len(before.reports) + 1,
                                Len(before.reports) + Len(e.attached))
                             = e.attached
                   /\ IsPrefix(before.new_tasks, after.new_tasks)
                   /\ IF Tail(workers[w].chunks) # <<>>
                      THEN /\ workers'[w].pc = "extract"
                           /\ workers'[w].chunks = Tail(workers[w].chunks)
                      ELSE /\ workers'[w].pc = "idle"
                           /\ after.escaped = "None"]_vars

C13_Witness ==
    \E r \in ReturnedResults :
        /\ Len(r.chunk_log) = 2
        /\ r.chunk_log[1].raised = "ExtractError"
        /\ r.chunk_log[1].attached # <<>>
        /\ r.chunk_log[1].child # <<>>
        /\ r.chunk_log[2].raised = "None"
        /\ r.chunk_log[2].unlinked
        /\ r.reports = r.chunk_log[1].attached
        /\ Len(r.new_tasks) = 2
        /\ r.escaped = "None"

\* C14: the Reports returned by process_file is a concatenation of the
\* report sequences of the tasks processed in the run: each callback appends
\* the reports of its result as one block, in the order the task added
\* them, and nothing else changes the Reports; when process_file returns
\* every result has been called back.
C14_ReportsConcatenated ==
    [][/\ IF Len(results') < Len(results)
          THEN all_reports' = all_reports \o Head(results).reports
          ELSE all_reports' = all_reports
       /\ main_pc' = "done" => (results' = <<>> /\ returned' = EmptyBag)]_vars

C14_Witness ==
    /\ all_reports # <<>>
    /\ results # <<>>
    /\ Len(Head(results).reports) >= 2
    /\ Head(results).reports[1].severity # Head(results).reports[2].severity
    /\ Head(results).task.depth > 0

\* C15: a non-root task is submitted to the pool only from the result
\* callback of its parent's result: every task in the pool's queue, and
\* every task a worker was handed, is the root task or was listed in a
\* result that process_task had returned and the callback had received, so
\* no task starts before the processing of its parent has completed.
C15_SubmittedOnlyByCallback ==
    /\ ~ mishandled
    /\ \A i \in 1..Len(queue) :
          CopiesIn(queue[i], BagOfSeq(queue)) <= CopiesIn(queue[i], expected)
    /\ main_pc = "submit" =>
          /\ queue = <<>>
          /\ \A w \in 1..process_num : workers[w].pc = "idle"

C15_Witness ==
    \E w \in 1..process_num :
        /\ workers[w].pc = "extract"
        /\ workers[w].result.task.depth = 1
        /\ \E r \in Range(results) :
              /\ r.new_tasks # <<>>
              /\ \A t \in Range(r.new_tasks) :
                    ~ BagIn(t, expected) /\ t \notin Range(queue)

\* C16: get_exit_code_from_reports returns 1 if and only if the reports
\* contain at least one report of severity ERROR, and 0 otherwise; reports
\* of severity WARNING alone never yield a non-zero exit code.
C16_ExitCode ==
    exit_code # -1 =>
        /\ exit_code = 1 <=>
              \E i \in 1..Len(all_reports) : all_reports[i].severity = "ERROR"
        /\ exit_code \in {0, 1}
        /\ (\A i \in 1..Len(all_reports) :
                all_reports[i].severity = "WARNING") => exit_code = 0

C16_Witness ==
    /\ exit_code = 1
    /\ \E i \in 1..Len(all_reports) : all_reports[i].severity = "ERROR"
    /\ \E i \in 1..Len(all_reports) : all_reports[i].severity = "WARNING"
    /\ all_reports[1].severity = "WARNING"

\* the entropy calculations in the history of a task
EntropyOf(r) ==
    r.effects \cap {"calculate_entropy(unknown chunk)",
                    "calculate_entropy(task path)"}

\* C17 as stated: entropy calculation is invoked only on paths that were
\* carved as unknown chunks, and only when task.depth < entropy_depth; for a
\* task with depth >= entropy_depth it is never invoked.
C17_EntropyOnlyOfUnknownChunks ==
    \A r \in AllResults :
        /\ EntropyOf(r) \subseteq {"calculate_entropy(unknown chunk)"}
        /\ EntropyOf(r) # {} => r.task.depth < config.entropy_depth

\* C17, amended: entropy calculation is invoked only when task.depth <
\* entropy_depth, and only on paths that were carved as unknown chunks or,
\* for a file in which neither a valid nor an unknown chunk was found, on
\* the path of the task itself; for a task with depth >= entropy_depth it
\* is never invoked.
C17_EntropyGuarded ==
    \A r \in AllResults :
        /\ EntropyOf(r) # {} => r.task.depth < config.entropy_depth
        /\ "calculate_entropy(unknown chunk)" \in r.effects =>
              "carve_unknown_chunks" \in r.effects
        /\ "calculate_entropy(task path)" \in r.effects =>
              /\ "search" \in r.effects
              /\ "make_extract_dir" \notin r.effects
              /\ "calculate_entropy(unknown chunk)" \notin r.effects
              /\ r.chunk_log = <<>>

C17_Witness ==
    /\ config.entropy_depth = 1
    /\ \E r \in ReturnedResults :
          /\ r.task.depth = 0
          /\ r.task.path.node = "entry"
          /\ "calculate_entropy(unknown chunk)" \in r.effects
          /\ "calculate_entropy(task path)" \notin r.effects
          /\ r.new_tasks # <<>>

\* C18: a task whose path is a directory (with depth < max_depth and a
\* valid path) adds exactly one child task per directory entry, each with
\* the same depth and the same root as the parent, and does nothing else:
\* no chunk search, no extract directory, no carving.
C18_DirectoryTask ==
    \A r \in AllResults :
        "iterdir" \in r.effects =>
            /\ r.task.depth < config.max_depth
            /\ Len(r.new_tasks) = Len(r.listing)
            /\ \A i \in 1..Len(r.listing) :
                  r.new_tasks[i] = Task(r.task.root, r.listing[i], r.task.depth)
            /\ r.effects = {"valid_path", "lstat", "iterdir"}
            /\ r.chunk_log = <<>>
            /\ r.reports = <<>>

C18_Witness ==
    \E r \in ReturnedResults :
        /\ "iterdir" \in r.effects
        /\ r.task.depth = 1
        /\ r.task.root = extract_root
        /\ Len(r.listing) = 2
        /\ r.listing[1] # r.listing[2]
        /\ Len(r.new_tasks) = 2

\* C19: any two distinct file tasks that create an extract directory,
\* within one run or across the successive process_file calls for the input
\* files of one invocation, get distinct extract directories, so
\* make_extract_dir never finds its target already populated.
C19_DistinctExtractDirs ==
    \A i, j \in 1..Len(extract_dirs) :
        (i < j /\ extract_dirs[i].task # extract_dirs[j].task) =>
            /\ extract_dirs[i].extract_dir # extract_dirs[j].extract_dir
            /\ ~ extract_dirs[j].populated

\* C20: calculate_unknown_chunks emits an unknown chunk for an adjacent
\* pair of the start-sorted chunks only when next.start > prev.end; for a
\* pair with next.start <= prev.end it emits nothing and completes without
\* raising, for every list of valid chunks and every file size.
C20_GapsOnlyBetweenSeparateChunks ==
    rpc = "done" =>
        /\ unknown_chunks # InvalidInputFormat
        /\ LET s == sorted_by_offset(outer_chunks)
           IN \A i \in 1..(Len(s) - 1) :
                 (\E k \in 1..Len(unknown_chunks.value) :
                     /\ unknown_chunks.value[k].start_offset = s[i].end_offset
                     /\ unknown_chunks.value[k].end_offset
                            = s[i + 1].start_offset)
                 <=> s[i + 1].start_offset > s[i].end_offset

\* the chunks of a list that no other chunk of the list starts strictly
\* before and ends at or behind, in the order of the list
NotInside(chunks) ==
    LET inside(i) == \E j \in 1..Len(chunks) :
                        /\ j # i
                        /\ chunks[j].start_offset < chunks[i].start_offset
                        /\ chunks[j].end_offset >= chunks[i].end_offset
        RECURSIVE from(_)
        from(i) == IF i > Len(chunks) THEN <<>>
                   ELSE IF inside(i) THEN from(i + 1)
                   ELSE <<chunks[i]>> \o from(i + 1)
    IN from(1)

C22_SingleErrorReport ==
    \A r \in ReturnedResults :
        r.escaped # "None" =>
            SelectSeq(r.reports, LAMBDA report : report.severity = "ERROR")
                = <<UnknownError(r.escaped)>>

\* the tasks created or submitted and still held somewhere in the run: in
\* the queue of the pool, in the hands of a worker, or in a result
TasksOfRun ==
    Range(queue)
    \cup {r.task : r \in AllResults}
    \cup UNION {Range(r.new_tasks) : r \in AllResults}
    \cup UNION {UNION {Range(r.chunk_log[i].child) :
                         i \in 1..Len(r.chunk_log)} : r \in AllResults}

\* C23: in every reachable state of a run, every task that has been created
\* or submitted has 0 <= depth <= max_depth: the root has depth 0, directory
\* children keep the parent's depth, and an extraction child at depth + 1
\* is only created by a task with depth < max_depth.
C23_DepthWithinBounds ==
    /\ \A t \in TasksOfRun :
          /\ 0 <= t.depth /\ t.depth <= config.max_depth
          /\ t.path.node = "input" => t.depth = 0
    /\ \A r \in AllResults :
          /\ r.listing # <<>> =>
                \A t \in Range(r.new_tasks) : t.depth = r.task.depth
          /\ \A i \in 1..Len(r.chunk_log) :
                r.chunk_log[i].child # <<>> =>
                    /\ r.task.depth < config.max_depth
                    /\ r.chunk_log[i].child[1].depth = r.task.depth + 1
                    /\ r.chunk_log[i].child[1].depth <= config.max_depth

C23_Witness ==
    /\ config.max_depth = MaxDepth
    /\ \E t \in Range(queue) : t.depth = MaxDepth
    /\ \E r \in AllResults :
          /\ r.task.depth = MaxDepth - 1
          /\ r.chunk_log # <<>>
          /\ r.chunk_log[1].child # <<>>
          /\ r.chunk_log[1].child[1].depth = MaxDepth

\* C24: a task whose path is a symlink (including a symlink to a directory,
\* since lstat is used) or a regular file of size 0 is skipped: no chunk
\* search is run, no extract directory is created, and its TaskResult has
\* no new tasks.
C24_SymlinkAndEmptyFileSkipped ==
    \A r \in AllResults :
        r.on_disk \in {"symlink to directory", "symlink to file", "empty file"} =>
            /\ r.effects \cap {"iterdir", "search", "make_extract_dir",
                                "carve_unknown_chunks"} = {}
            /\ r.effects \subseteq {"valid_path", "lstat"}
            /\ r.listing = <<>>
            /\ r.chunk_log = <<>>
            /\ r.new_tasks = <<>>

C24_Witness ==
    /\ \E r \in ReturnedResults :
          /\ r.on_disk = "symlink to directory"
          /\ "lstat" \in r.effects
    /\ \E r \in ReturnedResults :
          /\ r.on_disk = "empty file"
          /\ "lstat" \in r.effects
====
